---- MODULE Spec2Model ----
(***************************************************************************)
(* State-machine model of aoc-env: the submission engine (aoc.submit), the *)
(* archive engine (aoc.bind), aoc.clear, the context resolved at import,   *)
(* the `context` commands and the files they work on.                      *)
(*                                                                         *)
(* Texts are sequences of pieces.  A gateway response is the sequence of   *)
(* phrases it is made of, a result string is the sequence of the literal   *)
(* parts and interpolated values of the f-string that builds it, and a     *)
(* Python source file is a sequence of tokens (see Tokens).                *)
(***************************************************************************)
EXTENDS Integers, Sequences, FiniteSets, TLC

VARIABLES
    TEST_MODE,             \* AOC_TEST_MODE == "true", read once at import
    test_expected_answer,  \* AOC_TEST_OUTPUT, read once at import (NONE if unset)
    year,                  \* resolved context, fixed at import
    day,
    progress_file,         \* Progress Store on disk: <<year, day>> -> stars
    notepad,               \* scratch file: [exists, text]
    solutions,             \* archive tree on disk: <<year, day, part>> -> text
    solved,                \* provider's state: <<year, day>> -> parts accepted
    last,                  \* what the last call did and returned
    context_file,          \* Context Store on disk: <<year, day>>, or <<>>
    latest,                \* Latest-Puzzle Oracle: <<latest_year, latest_day>>
    procs                  \* processes inside submit: what each has read

vars == <<TEST_MODE, test_expected_answer, year, day, progress_file,
          notepad, solutions, solved, last, context_file, latest, procs>>

\* what the calls of one process leave alone: the Context Store, the oracle
\* and the other processes
others == <<context_file, latest, procs>>

(***************************************************************************)
(* Bounds and value sets                                                   *)
(***************************************************************************)
FirstYear == 2015
LastDay == 25
MaxDay == 1
MaxLen == 3

Years == FirstYear..(FirstYear + 1)
Days == 1..MaxDay
Keys == Years \X Days

\* part values a caller may pass; 3 stands for every value outside [1, 2]
Parts == 1..3
ValidParts == {1, 2}

NONE == "<None>"

\* Python values passed as `answer`: an int, a str, or None
Answers ==
    { [t |-> "int", v |-> "42"], [t |-> "str", v |-> "42"],
      [t |-> "str", v |-> "41"], [t |-> "none", v |-> ""] }
\* the answers the calls of the model pass
CallAnswers == {[t |-> "int", v |-> "42"], [t |-> "str", v |-> "41"]}

\* (repr(answer) in place of str(answer): a str keeps its quotes)
StrAsRepr(a) ==
    IF a.t = "none" THEN "None"
    ELSE IF a.t = "str" THEN "'" \o a.v \o "'" ELSE a.v

\* str(answer)
Str(a) == IF a.t = "none" THEN "None" ELSE a.v

\* f"{value}" of a value that is a str or None
Fmt(s) == IF s = NONE THEN "None" ELSE s

Max(a, b) == IF a >= b THEN a ELSE b

\* (a lookup whose key never matches, as with an int key in a dict of str keys)
GetNeverFound(d, k, default) == default

\* dict.get(key, default)
Get(d, k, default) == IF k \in DOMAIN d THEN d[k] ELSE default

\* (a new record holding the one entry)
PutOnly(d, k, v) == [x \in {k} |-> v]

\* (the value merged into the record the file holds at the time of the write)
PutMerged(d, k, v) ==
    [x \in (DOMAIN progress_file) \cup {k} |->
        IF x = k THEN v ELSE progress_file[x]]

\* d[key] = value
Put(d, k, v) == [x \in (DOMAIN d) \cup {k} |-> IF x = k THEN v ELSE d[x]]

\* phrase in text
Contains(phrase, text) == \E i \in DOMAIN text : text[i] = phrase

(***************************************************************************)
(* Source text of the scratch file.  A file is a sequence of tokens:       *)
(*   "B"   a call  aoc.bind(...)            (ends with a closing paren)    *)
(*   "P"   other code ending with ")", such as print(x)                    *)
(*   "x"   other code holding no parenthesis                               *)
(*   "SP"  a blank or tab,  "NL"  a newline                                *)
(***************************************************************************)
Tokens == {"B", "P", "x", "SP", "NL"}
Ws == {"SP", "NL"}

AllIn(s, a, b, S) == \A t \in a..b : s[t] \in S

\* ^ and $ under re.MULTILINE
AtLineStart(s, i) == i = 1 \/ s[i - 1] = "NL"
AtLineEnd(s, m) == m = Len(s) \/ s[m + 1] = "NL"

\* The positions where a match of  ^\s*aoc\.bind\s*\(.*\)\s*$  starting at
\* position i can end: \s* runs over blanks and newlines up to the call at j,
\* .* runs to a closing parenthesis at e on the same line, \s* runs to m.
MatchEnds(s, i) ==
    { m \in i..Len(s) :
        \E j \in i..m : \E e \in j..m :
            /\ AllIn(s, i, j - 1, Ws)
            /\ s[j] = "B"
            /\ \/ e = j
               \/ s[e] \in {"B", "P"} /\ \A t \in j..e : s[t] # "NL"
            /\ AllIn(s, e + 1, m, Ws)
            /\ AtLineEnd(s, m) }

SetMax(S) == CHOOSE m \in S : \A n \in S : n <= m

\* re.sub(bind_pattern, "", content): leftmost matches, each the longest the
\* greedy quantifiers give, replaced by the empty string
RECURSIVE SubFrom(_, _)
SubFrom(s, i) ==
    IF i > Len(s) THEN <<>>
    ELSE IF AtLineStart(s, i) /\ MatchEnds(s, i) # {}
         THEN SubFrom(s, SetMax(MatchEnds(s, i)) + 1)
         ELSE <<s[i]>> \o SubFrom(s, i + 1)

\* str.rstrip()
RECURSIVE RStrip(_)
RStrip(s) ==
    IF s # <<>> /\ s[Len(s)] \in Ws THEN RStrip(SubSeq(s, 1, Len(s) - 1)) ELSE s

cleaned_content(content) == RStrip(SubFrom(content, 1))

\* texts the user (or the formatter) leaves in the scratch file; each is
\* already in the form ruff gives it, so formatting leaves it as it is
Sources ==
    { <<>>,
      <<"x", "NL", "B", "NL">>,
      <<"P", "NL">> }

Notepads == {[exists |-> FALSE, text |-> <<>>]} \cup
            {[exists |-> TRUE, text |-> t] : t \in Sources}

\* every text of at most MaxLen tokens
ScratchTexts == UNION {[1..n -> Tokens] : n \in 0..MaxLen}

(***************************************************************************)
(* Archive Engine: bind(part, overwrite)                                   *)
(***************************************************************************)
\* get_bool_config_setting(name, default): the settings a call reads
Configs ==
    [auto_bind : BOOLEAN, auto_format_on_bind : BOOLEAN,
     auto_commit_on_bind : BOOLEAN, auto_clear_on_bind : BOOLEAN]

\* (the context read again from the store, and the oracle, at each call)
dest_path_resolved_again(y, d, part) ==
    IF context_file # <<>> THEN <<context_file[1], context_file[2], part>>
    ELSE <<latest[1], latest[2], part>>

\* dest_path = SOLUTIONS_DIR / str(year) / f"{day:02d}" / f"part_{part}.py"
dest_path(y, d, part) == <<y, d, part>>

\* (the overwrite flag read the wrong way round)
KeepExistingFlipped(sol, dest, overwrite) == dest \in DOMAIN sol /\ overwrite

\* dest_path.exists() and not overwrite
KeepExisting(sol, dest, overwrite) == dest \in DOMAIN sol /\ ~overwrite

\* how the formatter run can end: it rewrites the file, it fails with an
\* exception bind catches (CalledProcessError, FileNotFoundError), or with
\* another OSError
FmtOutcomes == {"ok", "caught", "os_error"}
\* where the try block of bind can fail: before anything is written (read,
\* mkdir, opening the destination), in the write after the destination was
\* truncated, in the commit, in clear()
IoOutcomes == {"ok", "fail_before_write", "write_fail_trunc", "commit_fail",
               "clear_fail"}

NoCfg == [auto_bind |-> FALSE, auto_format_on_bind |-> FALSE,
          auto_commit_on_bind |-> FALSE, auto_clear_on_bind |-> FALSE]
NoEnv == [fmt |-> "ok", io |-> "ok"]

\* ruff format, as far as the tokens show it: no blanks at the end of a
\* line, one newline at the end of a file that is not empty
RECURSIVE RuffFrom(_, _)
RuffFrom(s, i) ==
    IF i > Len(s) THEN <<>>
    ELSE IF s[i] = "SP" /\ \E m \in i..Len(s) :
                              AllIn(s, i, m, {"SP"}) /\ AtLineEnd(s, m)
         THEN RuffFrom(s, i + 1)
         ELSE <<s[i]>> \o RuffFrom(s, i + 1)
RuffFormat(s) ==
    IF RStrip(s) = <<>> THEN <<>> ELSE RuffFrom(RStrip(s), 1) \o <<"NL">>

\* every text the scratch file can hold, with its formatted and its cleaned
\* form computed once
Texts == Sources \cup {RuffFormat(t) : t \in Sources}
Formatted == [t \in Texts |-> RuffFormat(t)]
Cleaned == [t \in Texts |-> cleaned_content(t)]

\* the cleaned form of any text: looked up if tabulated, computed if not
cleaned(t) == IF t \in Texts THEN Cleaned[t] ELSE cleaned_content(t)

\* clear(): empties the scratch file when it exists
clear_notepad(np) == IF np.exists THEN [exists |-> TRUE, text |-> <<>>] ELSE np

\* The whole of bind: the new scratch file and archive tree, how the call
\* ended, and whether an exception left it.
bind(np, sol, y, d, cfg, part, overwrite, env) ==
    LET dest == dest_path(y, d, part)
        out(n, s, st, r) ==
            [notepad |-> n, solutions |-> s, status |-> st, raised |-> r]
        formatted ==
            IF cfg.auto_format_on_bind /\ env.fmt = "ok"
            THEN [exists |-> TRUE, text |-> Formatted[np.text]]
            ELSE np
        written == Put(sol, dest, cleaned(formatted.text))
        truncated == Put(sol, dest, <<>>)
    IN  IF part \notin ValidParts THEN out(np, sol, "invalid_part", FALSE)
        ELSE IF ~np.exists THEN out(np, sol, "no_notepad", FALSE)
        ELSE IF cfg.auto_format_on_bind /\ env.fmt = "os_error"
             THEN out(np, sol, "format_raised", TRUE)
        ELSE IF KeepExisting(sol, dest, overwrite)
             THEN out(formatted, sol, "exists", FALSE)
        ELSE IF env.io = "fail_before_write"
             THEN out(formatted, sol, "failed", FALSE)
        ELSE IF env.io = "write_fail_trunc"
             THEN out(formatted, truncated, "failed", FALSE)
        ELSE IF cfg.auto_commit_on_bind /\ env.io = "commit_fail"
             THEN out(formatted, written, "failed", FALSE)
        ELSE IF cfg.auto_clear_on_bind /\ env.io = "clear_fail"
             THEN out(formatted, written, "failed", FALSE)
        ELSE IF cfg.auto_clear_on_bind
             THEN out(clear_notepad(formatted), written, "saved", FALSE)
        ELSE out(formatted, written, "saved", FALSE)

\* The settings and environments that make a difference to a call of bind:
\* a setting bind never reads is left off, an outcome of a step bind never
\* takes is left "ok".
Worlds ==
    { w \in [cfg : {c \in Configs : c.auto_bind},
             env : [fmt : FmtOutcomes, io : IoOutcomes]] :
        /\ ~w.cfg.auto_format_on_bind => w.env.fmt = "ok"
        /\ w.env.fmt = "os_error" => w.env.io = "ok"
        /\ (w.env.fmt = "os_error"
             \/ w.env.io \in {"fail_before_write", "write_fail_trunc"})
              => ~w.cfg.auto_commit_on_bind /\ ~w.cfg.auto_clear_on_bind
        /\ w.env.io = "commit_fail"
              => w.cfg.auto_commit_on_bind /\ ~w.cfg.auto_clear_on_bind
        /\ w.env.io = "clear_fail" => w.cfg.auto_clear_on_bind }
\* bind returns before the try block
WorldsKept ==
    { w \in Worlds : w.env.io = "ok" /\ ~w.cfg.auto_commit_on_bind
                                     /\ ~w.cfg.auto_clear_on_bind }
\* bind returns before the formatter
WorldsStop ==
    { w \in WorldsKept : ~w.cfg.auto_format_on_bind }
BindWorlds(np, sol, y, d, part, overwrite) ==
    IF part \notin ValidParts \/ ~np.exists THEN WorldsStop
    ELSE IF KeepExisting(sol, dest_path(y, d, part), overwrite) THEN WorldsKept
    ELSE Worlds

(***************************************************************************)
(* Remote Puzzle Gateway                                                   *)
(***************************************************************************)
RightPhrase == "That's the right answer!"
LevelPhrase == "You don't seem to be solving the right level"

RIGHT == <<RightPhrase, " You are one gold star closer to the goal.">>
WRONG_LEVEL == <<LevelPhrase, ".  Did you already complete it?">>
NOT_RIGHT == <<"That's not the right answer", "; your answer is too low.">>
TOO_RECENT == <<"You gave an answer too recently", "; you have to wait.">>

\* what post_answer can hand back: a response text in one of the provider's
\* phrasings, or an exception
Responses == {RIGHT, WRONG_LEVEL, NOT_RIGHT, TOO_RECENT}
NoPost == [raised |-> FALSE, text |-> <<>>]
PostOutcomes ==
    {[raised |-> FALSE, text |-> t] : t \in Responses} \cup
    {[raised |-> TRUE, text |-> <<>>]}

\* what scrape_day_page_for_answers can hand back: a dict part -> answer,
\* or an exception
AnswerTexts == {"42", "41"}
ScrapedDicts ==
    { <<>>, <<"42">>, <<"42", "41">>, <<"41", "42">>, [p \in {2} |-> "41"] }
NoScrape == [raised |-> FALSE, answers |-> <<>>]
ScrapeOutcomes ==
    {[raised |-> FALSE, answers |-> a] : a \in ScrapedDicts} \cup
    {[raised |-> TRUE, answers |-> <<>>]}

(***************************************************************************)
(* The puzzle provider behind the gateway.  A day has two parts; part p is *)
(* open for answers exactly when p - 1 parts are solved.                   *)
(***************************************************************************)
CorrectAnswer(part) == IF part = 1 THEN "42" ELSE "41"

\* the provider accepts the answer posted for this part
Accepts(k, part, answer) ==
    part = solved[k] + 1 /\ part \in ValidParts /\ Str(answer) = CorrectAnswer(part)

ProviderPost(k, part, answer) ==
    [raised |-> FALSE,
     text |-> IF part # solved[k] + 1 \/ part \notin ValidParts THEN WRONG_LEVEL
              ELSE IF Str(answer) = CorrectAnswer(part) THEN RIGHT
              ELSE NOT_RIGHT]

SolvedAfter(k, part, answer) ==
    IF Accepts(k, part, answer) THEN [solved EXCEPT ![k] = part] ELSE solved

\* the provider's answer, a cooldown notice, or a network failure
ProviderPosts(k, part, answer) ==
    { ProviderPost(k, part, answer),
      [raised |-> FALSE, text |-> TOO_RECENT],
      [raised |-> TRUE, text |-> <<>>] }

\* the day page shows the answers of the solved parts; the scrape may also
\* find none of them, or fail
ProviderScrapes(k) ==
    { [raised |-> FALSE, answers |-> [p \in 1..solved[k] |-> CorrectAnswer(p)]],
      [raised |-> FALSE, answers |-> <<>>],
      [raised |-> TRUE, answers |-> <<>>] }

(***************************************************************************)
(* Submission Engine: submit(answer, part)                                 *)
(***************************************************************************)
\* what a call leaves behind for the caller and the observers of the model
Idle ==
    [op |-> "none", part |-> 0, answer |-> [t |-> "none", v |-> ""],
     overwrite |-> FALSE, branch |-> "none", raised |-> FALSE,
     result |-> <<>>, response |-> <<>>, known |-> NONE, auto_bind |-> "unread",
     posts |-> 0, scrapes |-> 0, reads |-> 0, writes |-> 0, binds |-> 0,
     bind_status |-> "none"]

\* (only the lower bound of part checked)
InvalidPartLowOnly(part) == part < 1

\* part not in [1, 2]
InvalidPart(part) == part \notin ValidParts

\* (the verify branch never taken: every call posts)
AlreadyCompletedNever(current_stars, part) == FALSE

\* (off by one: current_stars > part)
AlreadyCompletedStrict(current_stars, part) == current_stars > part

\* current_stars >= part
AlreadyCompleted(current_stars, part) == current_stars >= part

\* (min in place of max)
new_stars_min(current_stars, part) ==
    IF current_stars <= part THEN current_stars ELSE part

\* (the update rolled back to the count that was read)
new_stars_rolled_back(current_stars, part) == current_stars

\* new_stars = max(current_stars, part)
new_stars(current_stars, part) == Max(current_stars, part)

\* (any response that is not "right" taken as "already completed")
ClassifyNoElse(response_text) ==
    IF Contains(RightPhrase, response_text) THEN "correct"
    ELSE "already_completed"

\* (auto-bind hung on the wrong branch: archive on "already completed")
ClassifySwapped(response_text) ==
    IF Contains(LevelPhrase, response_text) THEN "correct"
    ELSE IF Contains(RightPhrase, response_text) THEN "already_completed"
    ELSE "incorrect"

\* the if / elif / else on the response text
Classify(response_text) ==
    IF Contains(RightPhrase, response_text) THEN "correct"
    ELSE IF Contains(LevelPhrase, response_text) THEN "already_completed"
    ELSE "incorrect"

\* (the answer compared as passed, without str(): an int equals no string)
TestResultRaw(answer, expected) ==
    IF answer.t = "str" /\ answer.v = Fmt(expected)
    THEN <<":ok: PASSED">>
    ELSE <<":x: FAILED: Got '", Str(answer), "', but expected '",
           Fmt(expected), "'">>

\* the test-mode comparison of str(answer) with str(_test_expected_answer)
TestResult(answer, expected) ==
    IF Str(answer) = Fmt(expected)
    THEN <<":ok: PASSED">>
    ELSE <<":x: FAILED: Got '", Str(answer), "', but expected '",
           Fmt(expected), "'">>

\* Python's None standing where a star count is expected
NoStars == -1

\* The branch submit takes in the current state, before any gateway call.
Route(part) ==
    IF TEST_MODE THEN "test"
    ELSE IF InvalidPart(part) THEN "invalid_part"
    ELSE IF AlreadyCompleted(Get(progress_file, <<year, day>>, 0), part)
         THEN "verify"
    ELSE "live"

\* The whole of submit(answer, part).  scrape and post are what the gateway
\* hands back if asked; cfg and env are what bind meets if it is called.
submit(answer, part, scrape, post, w) ==
    LET call == [Idle EXCEPT !.op = "submit", !.part = part, !.answer = answer]
        str_answer == Str(answer)
        progress_data == progress_file
        key == <<year, day>>
        current_stars == Get(progress_data, key, 0)
        known_correct_answer == Get(scrape.answers, part, NONE)
        response_text == post.text
        stars == new_stars(current_stars, part)
        auto_bind == w.cfg.auto_bind
        bound == bind(notepad, solutions, year, day, w.cfg, part, FALSE, w.env)
    IN
    IF TEST_MODE THEN
        /\ last' = [call EXCEPT !.branch = "test",
                       !.result = TestResult(answer, test_expected_answer)]
        /\ UNCHANGED <<progress_file, notepad, solutions>>
    ELSE IF InvalidPart(part) THEN
        /\ last' = [call EXCEPT !.branch = "invalid_part",
                       !.result = <<"The 'part' argument for submit() must be 1 or 2.">>]
        /\ UNCHANGED <<progress_file, notepad, solutions>>
    ELSE IF AlreadyCompleted(current_stars, part) THEN
        /\ last' =
              IF scrape.raised
              THEN [call EXCEPT !.branch = "gateway_error", !.raised = TRUE,
                       !.reads = 1, !.scrapes = 1]
              ELSE [call EXCEPT !.branch = "verify", !.reads = 1, !.scrapes = 1,
                       !.known = known_correct_answer,
                       !.result =
                           IF known_correct_answer # NONE
                           THEN IF str_answer = known_correct_answer
                                THEN <<":ok: Your answer '", str_answer,
                                       "' is correct!">>
                                ELSE <<":x: Your answer '", str_answer,
                                       "' is incorrect. The correct answer was '",
                                       known_correct_answer, "'.">>
                           ELSE <<":warning: Puzzle already completed",
                                  ", but could not verify answer against AoC website.">>]
        /\ UNCHANGED <<progress_file, notepad, solutions>>
    ELSE IF post.raised THEN
        /\ last' = [call EXCEPT !.branch = "gateway_error", !.raised = TRUE,
                       !.reads = 1, !.posts = 1]
        /\ UNCHANGED <<progress_file, notepad, solutions>>
    ELSE IF Classify(response_text) = "correct" THEN
        /\ progress_file' = Put(progress_data, key, stars)
        /\ notepad' = IF auto_bind THEN bound.notepad ELSE notepad
        /\ solutions' = IF auto_bind THEN bound.solutions ELSE solutions
        /\ last' = [call EXCEPT !.branch = "correct", !.reads = 1, !.posts = 1,
                       !.writes = 1, !.response = response_text,
                       !.auto_bind = IF auto_bind THEN "on" ELSE "off",
                       !.binds = IF auto_bind THEN 1 ELSE 0,
                       !.bind_status =
                           IF auto_bind THEN bound.status ELSE "none",
                       !.raised = auto_bind /\ bound.raised,
                       !.result =
                           IF auto_bind /\ bound.raised THEN <<>>
                           ELSE <<":ok: ">> \o response_text]
    ELSE IF Classify(response_text) = "already_completed" THEN
        /\ progress_file' =
              IF Get(progress_data, key, NoStars) # stars
              THEN Put(progress_data, key, stars)
              ELSE progress_file
        /\ last' = [call EXCEPT !.branch = "already_completed", !.reads = 1,
                       !.posts = 1, !.response = response_text,
                       !.writes =
                           IF Get(progress_data, key, NoStars) # stars
                           THEN 1 ELSE 0,
                       !.result =
                           <<":ok: Part ", ToString(part),
                             " has already been completed. The server did not ",
                             "accept the new submission.">>]
        /\ UNCHANGED <<notepad, solutions>>
    ELSE
        /\ last' = [call EXCEPT !.branch = "incorrect", !.reads = 1, !.posts = 1,
                       !.response = response_text,
                       !.result = <<":x: ">> \o response_text]
        /\ UNCHANGED <<progress_file, notepad, solutions>>

\* the gateway answers and bind environments that make a difference to a
\* submit call in the current state
ScrapesFor(part, all) == IF Route(part) = "verify" THEN all ELSE {NoScrape}
PostsFor(part, all) == IF Route(part) = "live" THEN all ELSE {NoPost}
BindsAfter(part, post) ==
    Route(part) = "live" /\ ~post.raised /\ Classify(post.text) = "correct"
WorldsFor(part, post) ==
    IF BindsAfter(part, post)
    THEN BindWorlds(notepad, solutions, year, day, part, FALSE)
         \cup {[cfg |-> NoCfg, env |-> NoEnv]}
    ELSE {[cfg |-> NoCfg, env |-> NoEnv]}

(***************************************************************************)
(* The process: module import, then any sequence of calls                  *)
(***************************************************************************)
\* the record earlier runs left for the other days
PriorStars(k) == (k[1] + k[2]) % 3

Init ==
    /\ TEST_MODE \in BOOLEAN
    /\ test_expected_answer \in (IF TEST_MODE THEN {"42", NONE} ELSE {NONE})
    /\ year \in Years
    /\ day \in Days
    /\ \E S \in (IF TEST_MODE THEN {Keys} ELSE {Keys, Keys \ {<<year, day>>}}) :
          progress_file =
              [k \in S |-> IF k = <<year, day>> THEN 0 ELSE PriorStars(k)]
    /\ notepad = [exists |-> FALSE, text |-> <<>>]
    /\ solutions = <<>>
    /\ solved = [k \in Keys |-> 0]
    /\ last = Idle
    /\ context_file = <<year, day>>
    /\ latest = <<FirstYear + 1, MaxDay>>
    /\ procs = <<>>

InitProvider ==
    /\ TEST_MODE = FALSE
    /\ test_expected_answer = NONE
    /\ year \in Years
    /\ day \in Days
    /\ \E S \in {Keys, Keys \ {<<year, day>>}} :
          progress_file =
              [k \in S |-> IF k = <<year, day>> THEN 0 ELSE PriorStars(k)]
    /\ notepad = [exists |-> FALSE, text |-> <<>>]
    /\ solutions = <<>>
    /\ \E own \in 0..2 :
          solved = [k \in Keys |-> IF k = <<year, day>> THEN own ELSE 2]
    /\ last = Idle
    /\ context_file = <<year, day>>
    /\ latest = <<FirstYear + 1, MaxDay>>
    /\ procs = <<>>

\* the gateway is any collaborator: it may answer anything
Submit ==
    \E answer \in CallAnswers, part \in Parts :
      \E scrape \in ScrapesFor(part, ScrapeOutcomes),
         post \in PostsFor(part, PostOutcomes) :
        \E w \in WorldsFor(part, post) :
          /\ submit(answer, part, scrape, post, w)
          /\ UNCHANGED <<TEST_MODE, test_expected_answer, year, day, solved>>
          /\ UNCHANGED others

Bind ==
    \E part \in Parts, overwrite \in BOOLEAN :
      \E w \in BindWorlds(notepad, solutions, year, day, part, overwrite) :
        LET b == bind(notepad, solutions, year, day, w.cfg, part, overwrite,
                      w.env)
        IN  /\ notepad' = b.notepad
            /\ solutions' = b.solutions
            /\ last' = [Idle EXCEPT !.op = "bind", !.part = part,
                           !.overwrite = overwrite, !.binds = 1,
                           !.bind_status = b.status, !.raised = b.raised]
            /\ UNCHANGED <<TEST_MODE, test_expected_answer, year, day,
                           progress_file, solved>>
            /\ UNCHANGED others

Clear ==
    /\ notepad' = clear_notepad(notepad)
    /\ last' = [Idle EXCEPT !.op = "clear"]
    /\ UNCHANGED <<TEST_MODE, test_expected_answer, year, day, progress_file,
                   solutions, solved>>
    /\ UNCHANGED others

\* the user writes, or deletes, the scratch file
EditNotepad ==
    /\ notepad' \in Notepads \ {notepad}
    /\ last' = [Idle EXCEPT !.op = "edit"]
    /\ UNCHANGED <<TEST_MODE, test_expected_answer, year, day, progress_file,
                   solutions, solved>>
    /\ UNCHANGED others

\* the gateway answers as the provider does
SubmitProvider ==
    \E answer \in CallAnswers, part \in Parts :
      \E scrape \in ScrapesFor(part, ProviderScrapes(<<year, day>>)),
         post \in PostsFor(part, ProviderPosts(<<year, day>>, part, answer)) :
        \E w \in WorldsFor(part, post) :
          /\ submit(answer, part, scrape, post, w)
          /\ solved' =
                IF Route(part) = "live" /\ post = ProviderPost(<<year, day>>, part, answer)
                THEN SolvedAfter(<<year, day>>, part, answer)
                ELSE solved
          /\ UNCHANGED <<TEST_MODE, test_expected_answer, year, day>>
          /\ UNCHANGED others

(***************************************************************************)
(* Context Resolver, Context Store and the `context` commands              *)
(***************************************************************************)
\* read_context() of a store that holds no context
NoContext == <<>>

\* (the oracle asked whatever the store holds)
resolve_default(context, oracle) == oracle

\* context = read_context(); year, day = context if context else the
\* latest puzzle date
resolve(context, oracle) == IF context # NoContext THEN context ELSE oracle

\* (the check against the latest day left out)
valid_date_any_day(y, d, latest_year, latest_day) ==
    /\ FirstYear <= y /\ y <= latest_year
    /\ 1 <= d /\ d <= LastDay

\* the three checks of context_set, none of which aborts
valid_date(y, d, latest_year, latest_day) ==
    /\ FirstYear <= y /\ y <= latest_year
    /\ 1 <= d /\ d <= LastDay
    /\ ~(y = latest_year /\ d > latest_day)

\* the first check of context_set that aborts
set_error(y, d, latest_year, latest_day) ==
    IF ~(FirstYear <= y /\ y <= latest_year) THEN "year"
    ELSE IF ~(1 <= d /\ d <= LastDay) THEN "day"
    ELSE IF y = latest_year /\ d > latest_day THEN "not_yet"
    ELSE "none"

\* values a user may pass to `context set`, around each limit of the checks
SetYears == (FirstYear - 1)..(FirstYear + 2)
SetDays == {0, 1, 2, LastDay, LastDay + 1}
\* dates the oracle names, in the order the calendar reaches them
Calendar ==
    {<<FirstYear, LastDay>>, <<FirstYear + 1, 1>>, <<FirstYear + 1, 2>>,
     <<FirstYear + 1, LastDay>>}
Later(a, b) == a[1] > b[1] \/ (a[1] = b[1] /\ a[2] > b[2])

\* module import in a new process: the context is resolved
import ==
    /\ year' = resolve(context_file, latest)[1]
    /\ day' = resolve(context_file, latest)[2]
    /\ last' = [op |-> "import", after |-> last.op,
                source |-> IF context_file # NoContext THEN "persisted"
                                                 ELSE "default"]

\* context set --year y --day d
context_set(y, d) ==
    /\ context_file' =
          IF valid_date(y, d, latest[1], latest[2]) THEN <<y, d>>
          ELSE context_file
    /\ last' = [op |-> "context_set", year |-> y, day |-> d,
                error |-> set_error(y, d, latest[1], latest[2]),
                aborted |-> ~valid_date(y, d, latest[1], latest[2])]

\* context show
context_show ==
    /\ last' = [op |-> "context_show",
                result |->
                    IF context_file # NoContext
                    THEN <<"The current context is set to: Year ",
                           context_file[1], ", Day ", context_file[2]>>
                    ELSE <<"No context is currently set.",
                           "The tool will default to the latest available puzzle.">>]
    /\ UNCHANGED context_file

\* context clear
context_clear ==
    /\ context_file' = NoContext
    /\ last' = [op |-> "context_clear"]

files == <<progress_file, notepad, solutions, solved, procs>>

\* a machine with any calendar date and any context a `context set` of an
\* earlier day left, and a process just started on it
InitContext ==
    /\ TEST_MODE = FALSE
    /\ test_expected_answer = NONE
    /\ latest \in Calendar
    /\ context_file \in
          {NoContext} \cup
          {c \in SetYears \X SetDays :
              valid_date(c[1], c[2], latest[1], latest[2])}
    /\ year = resolve(context_file, latest)[1]
    /\ day = resolve(context_file, latest)[2]
    /\ progress_file = <<>>
    /\ notepad = [exists |-> FALSE, text |-> <<>>]
    /\ solutions = <<>>
    /\ solved = [k \in Keys |-> 0]
    /\ last = [op |-> "import", after |-> "none",
               source |-> IF context_file # NoContext THEN "persisted"
                                                ELSE "default"]
    /\ procs = <<>>

\* a new process starts and imports the module
Import ==
    /\ import
    /\ UNCHANGED <<TEST_MODE, test_expected_answer, context_file, latest>>
    /\ UNCHANGED files

ContextSet ==
    \E y \in SetYears, d \in SetDays :
        /\ context_set(y, d)
        /\ UNCHANGED <<TEST_MODE, test_expected_answer, year, day, latest>>
        /\ UNCHANGED files

ContextShow ==
    /\ context_show
    /\ UNCHANGED <<TEST_MODE, test_expected_answer, year, day, latest>>
    /\ UNCHANGED files

ContextClear ==
    /\ context_clear
    /\ UNCHANGED <<TEST_MODE, test_expected_answer, year, day, latest>>
    /\ UNCHANGED files

\* the calendar moves on: the oracle names a later date
Tick ==
    /\ latest' \in {o \in Calendar : Later(o, latest)}
    /\ last' = [op |-> "tick"]
    /\ UNCHANGED <<TEST_MODE, test_expected_answer, year, day, context_file>>
    /\ UNCHANGED files

(***************************************************************************)
(* One process, and the context commands other processes run meanwhile     *)
(***************************************************************************)
\* a process just started, with a solution in its scratch file
InitLifetime ==
    /\ TEST_MODE = FALSE
    /\ test_expected_answer = NONE
    /\ latest = <<FirstYear + 1, MaxDay>>
    /\ context_file \in {NoContext} \cup Keys
    /\ year = resolve(context_file, latest)[1]
    /\ day = resolve(context_file, latest)[2]
    /\ \E S \in {Keys, Keys \ {<<year, day>>}} :
          progress_file =
              [k \in S |-> IF k = <<year, day>> THEN 0 ELSE PriorStars(k)]
    /\ notepad \in {[exists |-> TRUE, text |-> t] : t \in Sources \ {<<>>}}
    /\ solutions = <<>>
    /\ \E own \in 0..2 :
          solved = [k \in Keys |-> IF k = <<year, day>> THEN own ELSE 2]
    /\ last = Idle
    /\ procs = <<>>

\* submit in this process: the provider answers, bind meets no failure
SubmitOwn ==
    \E answer \in CallAnswers, part \in ValidParts, auto_bind \in BOOLEAN :
      \E scrape \in ScrapesFor(part, ProviderScrapes(<<year, day>>)),
         post \in PostsFor(part, ProviderPosts(<<year, day>>, part, answer)) :
        /\ submit(answer, part, scrape, post,
                  [cfg |-> [NoCfg EXCEPT !.auto_bind = auto_bind],
                   env |-> NoEnv])
        /\ solved' =
              IF Route(part) = "live"
                 /\ post = ProviderPost(<<year, day>>, part, answer)
              THEN SolvedAfter(<<year, day>>, part, answer)
              ELSE solved
        /\ UNCHANGED <<TEST_MODE, test_expected_answer, year, day>>
        /\ UNCHANGED others

\* bind in this process, every setting off
BindOwn ==
    \E part \in ValidParts, overwrite \in BOOLEAN :
      LET b == bind(notepad, solutions, year, day, NoCfg, part, overwrite,
                    NoEnv)
      IN  /\ notepad' = b.notepad
          /\ solutions' = b.solutions
          /\ last' = [Idle EXCEPT !.op = "bind", !.part = part,
                         !.overwrite = overwrite, !.binds = 1,
                         !.bind_status = b.status, !.raised = b.raised]
          /\ UNCHANGED <<TEST_MODE, test_expected_answer, year, day,
                         progress_file, solved>>
          /\ UNCHANGED others

\* another process runs `context set` with a date of the calendar
ContextSetOther ==
    \E k \in Keys :
        /\ context_set(k[1], k[2])
        /\ UNCHANGED <<TEST_MODE, test_expected_answer, year, day, latest>>
        /\ UNCHANGED files

(***************************************************************************)
(* Two processes in submit at the same time.  A call is two steps on the   *)
(* Progress Store, the read of line 101 and the write of line 151 or 164,  *)
(* with the post to the gateway between them.                              *)
(***************************************************************************)
Procs == {"p", "q"}

\* a process outside submit, with the context it resolved at import
Outside(k) ==
    [pc |-> "outside", year |-> k[1], day |-> k[2], part |-> 0,
     progress_data |-> <<>>]

\* submit up to the post: the record is read; a part the record holds as
\* solved goes to the verify branch, which writes nothing
submit_read(p, part) ==
    LET progress_data == progress_file
        key == <<procs[p].year, procs[p].day>>
        current_stars == Get(progress_data, key, 0)
    IN  /\ procs' =
              IF AlreadyCompleted(current_stars, part) THEN procs
              ELSE [procs EXCEPT ![p].pc = "posted", ![p].part = part,
                                 ![p].progress_data = progress_data]
        /\ last' = [op |-> "submit_read", proc |-> p, part |-> part,
                    branch |-> IF AlreadyCompleted(current_stars, part)
                               THEN "verify" ELSE "live"]
        /\ UNCHANGED progress_file

\* submit from the response on: the record that was read is written back
\* with the entry of the resolved day set
submit_write(p, response_text) ==
    LET progress_data == procs[p].progress_data
        key == <<procs[p].year, procs[p].day>>
        part == procs[p].part
        current_stars == Get(progress_data, key, 0)
        stars == new_stars(current_stars, part)
        writes ==
            \/ Classify(response_text) = "correct"
            \/ /\ Classify(response_text) = "already_completed"
               /\ Get(progress_data, key, NoStars) # stars
    IN  /\ progress_file' =
              IF writes THEN Put(progress_data, key, stars) ELSE progress_file
        /\ procs' = [procs EXCEPT ![p] = Outside(key)]
        /\ last' = [op |-> "submit_write", proc |-> p, part |-> part,
                    branch |-> Classify(response_text), wrote |-> writes,
                    read |-> progress_data, before |-> progress_file]

InitRace ==
    /\ TEST_MODE = FALSE
    /\ test_expected_answer = NONE
    /\ year = FirstYear
    /\ day = 1
    /\ progress_file \in {<<>>, [k \in Keys |-> PriorStars(k)]}
    /\ notepad = [exists |-> FALSE, text |-> <<>>]
    /\ solutions = <<>>
    /\ solved = [k \in Keys |-> 0]
    /\ last = Idle
    /\ context_file = NoContext
    /\ latest = <<FirstYear + 1, MaxDay>>
    /\ procs \in [Procs -> {Outside(k) : k \in Keys}]

SubmitRead ==
    \E p \in Procs, part \in ValidParts :
        /\ procs[p].pc = "outside"
        /\ submit_read(p, part)
        /\ UNCHANGED <<TEST_MODE, test_expected_answer, year, day, notepad,
                       solutions, solved, context_file, latest>>

SubmitWrite ==
    \E p \in Procs, response_text \in Responses :
        /\ procs[p].pc = "posted"
        /\ submit_write(p, response_text)
        /\ UNCHANGED <<TEST_MODE, test_expected_answer, year, day, notepad,
                       solutions, solved, context_file, latest>>

(***************************************************************************)
(* bind under every combination of the settings and the failures           *)
(***************************************************************************)
InitArchive ==
    /\ TEST_MODE = FALSE
    /\ test_expected_answer = NONE
    /\ year = FirstYear
    /\ day = 1
    /\ progress_file = <<>>
    /\ notepad \in Notepads
    /\ solutions = <<>>
    /\ solved = [k \in Keys |-> 0]
    /\ last = Idle
    /\ context_file = <<year, day>>
    /\ latest = <<FirstYear + 1, MaxDay>>
    /\ procs = <<>>

\* bind(part, overwrite) with the settings as the configuration file has
\* them, read or not, and the one step that fails, if any (a step that a
\* setting switches off does not fail)
BindArchive ==
    \E part \in ValidParts, overwrite \in BOOLEAN, cfg \in Configs,
       fmt \in FmtOutcomes, io \in IoOutcomes :
      LET env == [fmt |-> fmt, io |-> io]
          b == bind(notepad, solutions, year, day, cfg, part, overwrite, env)
      IN  /\ ~cfg.auto_bind
          /\ fmt = "ok" \/ io = "ok"
          /\ fmt # "ok" => cfg.auto_format_on_bind
          /\ io = "commit_fail" => cfg.auto_commit_on_bind
          /\ io = "clear_fail" => cfg.auto_clear_on_bind
          /\ notepad' = b.notepad
          /\ solutions' = b.solutions
          /\ last' = [op |-> "bind", part |-> part, overwrite |-> overwrite,
                      bind_status |-> b.status, raised |-> b.raised,
                      cfg |-> cfg, env |-> env]
          /\ UNCHANGED <<TEST_MODE, test_expected_answer, year, day,
                         progress_file, solved>>
          /\ UNCHANGED others

\* a process whose scratch file holds any text of at most MaxLen tokens
InitScratch ==
    /\ TEST_MODE = FALSE
    /\ test_expected_answer = NONE
    /\ year = FirstYear
    /\ day = 1
    /\ progress_file = <<>>
    /\ notepad \in {[exists |-> TRUE, text |-> t] : t \in ScratchTexts}
    /\ solutions = <<>>
    /\ solved = [k \in Keys |-> 0]
    /\ last = Idle
    /\ context_file = <<year, day>>
    /\ latest = <<FirstYear + 1, MaxDay>>
    /\ procs = <<>>

\* bind(part) with every setting off: read, clean, write
BindScratch ==
    \E part \in ValidParts :
      LET b == bind(notepad, solutions, year, day, NoCfg, part, FALSE, NoEnv)
      IN  /\ notepad' = b.notepad
          /\ solutions' = b.solutions
          /\ last' = [Idle EXCEPT !.op = "bind", !.part = part, !.binds = 1,
                         !.bind_status = b.status, !.raised = b.raised]
          /\ UNCHANGED <<TEST_MODE, test_expected_answer, year, day,
                         progress_file, solved>>
          /\ UNCHANGED others

Next == Submit \/ Bind \/ Clear \/ EditNotepad
NextProvider == SubmitProvider \/ EditNotepad
NextScratch == BindScratch
NextLifetime == SubmitOwn \/ BindOwn \/ ContextSetOther \/ ContextClear
NextRace == SubmitRead \/ SubmitWrite
NextArchive == BindArchive \/ EditNotepad
NextContext == Import \/ ContextSet \/ ContextShow \/ ContextClear \/ Tick

Spec == Init /\ [][Next]_vars
SpecProvider == InitProvider /\ [][NextProvider]_vars
SpecScratch == InitScratch /\ [][NextScratch]_vars
SpecContext == InitContext /\ [][NextContext]_vars
SpecLifetime == InitLifetime /\ [][NextLifetime]_vars
SpecRace == InitRace /\ [][NextRace]_vars
SpecArchive == InitArchive /\ [][NextArchive]_vars

(***************************************************************************)
(* Observers used by the properties                                        *)
(***************************************************************************)
OwnKey == <<year, day>>
StarsOf(record, k) == IF k \in DOMAIN record THEN record[k] ELSE 0
OwnStars == StarsOf(progress_file, OwnKey)
Larger(a, b) == IF a >= b THEN a ELSE b

\* the step is a call of submit outside / inside Test Mode
SubmitStep == ~TEST_MODE /\ last'.op = "submit"
TestSubmitStep == TEST_MODE /\ last'.op = "submit"

\* a result string that reports success
IsSuccess(result) ==
    result # <<>> /\ result[1] \in {":ok: Your answer '", ":ok: ", ":ok: Part ",
                                    ":ok: PASSED"}
CouldNotVerify ==
    <<":warning: Puzzle already completed",
      ", but could not verify answer against AoC website.">>

\* text occurs in the result string, whole
Carries(result, text) ==
    /\ text # <<>>
    /\ \E i \in 1..Len(result) :
          i + Len(text) - 1 <= Len(result)
          /\ SubSeq(result, i, i + Len(text) - 1) = text

FilesUnchanged ==
    /\ progress_file' = progress_file
    /\ solutions' = solutions
    /\ notepad' = notepad

(***************************************************************************)
(* C1: across any sequence of submit calls in one process the star count   *)
(* stored for the resolved (year, day) never decreases from one call to    *)
(* the next.                                                               *)
(***************************************************************************)
C1_StarsNeverDecrease ==
    [][StarsOf(progress_file', OwnKey) >= StarsOf(progress_file, OwnKey)]_vars

C1_Witness ==
    ~TEST_MODE /\ last.op = "submit" /\ last.scrapes = 1 /\ last.part = 1
    /\ OwnStars = 2

(***************************************************************************)
(* C2: outside Test Mode, once the stored stars are >= part they stay so,  *)
(* and every submit for that part makes no post_answer call: it takes the  *)
(* verify branch, whose only gateway call is the scrape.                   *)
(***************************************************************************)
C2_NoPostOnceSolved ==
    [][/\ \A p \in ValidParts :
             OwnStars >= p => StarsOf(progress_file', OwnKey) >= p
       /\ (SubmitStep /\ last'.part \in ValidParts /\ OwnStars >= last'.part)
             => /\ last'.posts = 0
                /\ last'.scrapes = 1
                /\ last'.branch \in {"verify", "gateway_error"}]_vars

C2_Witness ==
    ~TEST_MODE /\ last.op = "submit" /\ last.branch = "verify"
    /\ last.posts = 0 /\ last.scrapes = 1 /\ OwnStars >= last.part

(***************************************************************************)
(* C3: once the stored stars are >= part, a submit of the correct answer   *)
(* for that part returns a success result whatever the scrape yields.      *)
(* (As stated it fails: see C3_VerifiedOrWarned.)                          *)
(***************************************************************************)
VerifiedCorrectAnswer ==
    /\ ~TEST_MODE /\ last.op = "submit" /\ last.scrapes = 1 /\ ~last.raised
    /\ last.answer.v = CorrectAnswer(last.part)

C3_AlwaysSuccess == VerifiedCorrectAnswer => IsSuccess(last.result)

(***************************************************************************)
(* C3 as amended: outside Test Mode, once the stored stars are >= part, a  *)
(* submit of the correct answer for that part returns the success result   *)
(* when the scrape yields the known answer of the part, and the "could not *)
(* verify" warning when the scrape yields none; it never returns a         *)
(* failure.                                                                *)
(***************************************************************************)
C3_VerifiedOrWarned ==
    VerifiedCorrectAnswer =>
        IF last.known = NONE
        THEN last.result = CouldNotVerify
        ELSE last.result =
                 <<":ok: Your answer '", last.answer.v, "' is correct!">>

C3_Witness ==
    VerifiedCorrectAnswer /\ last.known # NONE /\ IsSuccess(last.result)
    /\ last.answer.t = "str"

(***************************************************************************)
(* C4: the star count stored locally for a day never exceeds the number of *)
(* parts the provider has accepted as solved for that day.                 *)
(***************************************************************************)
C4_LocalWithinProvider ==
    \A k \in Keys : StarsOf(progress_file, k) <= solved[k]

(***************************************************************************)
(* C5: a live submit (stored stars < part, part in {1, 2}) whose response  *)
(* contains "That's the right answer!" writes the Progress Store with      *)
(* stars = max(previous, part) for (year, day), and calls bind(part)       *)
(* without overwrite if and only if auto_bind is enabled.                  *)
(***************************************************************************)
LiveStep == SubmitStep /\ last'.part \in ValidParts /\ OwnStars < last'.part
            /\ last'.posts = 1

C5_CorrectWritesAndBinds ==
    [][(LiveStep /\ Contains(RightPhrase, last'.response))
         => /\ progress_file' =
                  Put(progress_file, OwnKey, Larger(OwnStars, last'.part))
            /\ last'.writes = 1
            /\ last'.auto_bind \in {"on", "off"}
            /\ last'.binds = (IF last'.auto_bind = "on" THEN 1 ELSE 0)
            /\ last'.auto_bind = "off"
                  => solutions' = solutions /\ notepad' = notepad
            /\ last'.auto_bind = "on"
                  => /\ last'.bind_status # "none"
                     /\ \A d \in DOMAIN solutions :
                           d \in DOMAIN solutions' /\ solutions'[d] = solutions[d]
                     /\ last'.bind_status = "saved"
                           => dest_path(year, day, last'.part) \in DOMAIN solutions']_vars

C5_Witness ==
    /\ ~TEST_MODE /\ last.op = "submit" /\ last.posts = 1
    /\ Contains(RightPhrase, last.response)
    /\ last.auto_bind = "on" /\ last.bind_status = "saved"
    /\ OwnStars = 2 /\ last.part = 2

(***************************************************************************)
(* C6: a live submit with stored stars below part whose response contains  *)
(* "You don't seem to be solving the right level" writes the Progress      *)
(* Store exactly once, with max(current, part); it calls no bind and       *)
(* leaves the archive and the scratch file alone; the next submit of the   *)
(* same part takes the verify branch and does not write the store.         *)
(***************************************************************************)
C6_AlreadyCompletedByServer ==
    [][/\ (LiveStep /\ Contains(LevelPhrase, last'.response))
            => /\ progress_file' =
                     Put(progress_file, OwnKey, Larger(OwnStars, last'.part))
               /\ last'.writes = 1
               /\ last'.binds = 0
               /\ solutions' = solutions
               /\ notepad' = notepad
               /\ StarsOf(progress_file', OwnKey) >= last'.part
       /\ (/\ SubmitStep /\ last.op = "submit" /\ last.posts = 1
           /\ Contains(LevelPhrase, last.response)
           /\ last'.part = last.part)
            => /\ last'.scrapes = 1
               /\ last'.posts = 0
               /\ last'.writes = 0
               /\ progress_file' = progress_file]_vars

C6_Witness ==
    /\ ~TEST_MODE /\ last.op = "submit" /\ last.posts = 1
    /\ Contains(LevelPhrase, last.response)
    /\ last.writes = 1 /\ OwnStars = last.part

(***************************************************************************)
(* C7: a submit that ends in the verify branch (match, mismatch, nothing   *)
(* scraped) or in the Incorrect branch (a response with neither phrase)    *)
(* leaves the Progress Store, the archive and the scratch file unchanged;  *)
(* in the Incorrect branch the result carries the raw response text.       *)
(***************************************************************************)
C7_NoMutation ==
    [][/\ (SubmitStep /\ last'.scrapes = 1 /\ ~last'.raised)
            => FilesUnchanged /\ last'.writes = 0 /\ last'.binds = 0
       /\ (/\ SubmitStep /\ last'.posts = 1 /\ ~last'.raised
           /\ ~Contains(RightPhrase, last'.response)
           /\ ~Contains(LevelPhrase, last'.response))
            => /\ FilesUnchanged /\ last'.writes = 0 /\ last'.binds = 0
               /\ Carries(last'.result, last'.response)]_vars

C7_Witness ==
    /\ ~TEST_MODE /\ last.op = "submit" /\ last.posts = 1 /\ ~last.raised
    /\ last.response = NOT_RIGHT
    /\ Carries(last.result, NOT_RIGHT)
    /\ OwnStars = 1 /\ last.part = 2

(***************************************************************************)
(* C8: in Test Mode submit(answer, part), for every part value, calls the  *)
(* gateway neither to post nor to scrape, neither reads nor writes the     *)
(* Progress Store, archives nothing, and returns PASSED exactly when       *)
(* str(answer) equals the expected string, otherwise a FAILED string that  *)
(* shows both values.                                                      *)
(***************************************************************************)
C8_TestModeCompare ==
    [][TestSubmitStep
         => /\ FilesUnchanged
            /\ last'.posts = 0 /\ last'.scrapes = 0
            /\ last'.reads = 0 /\ last'.writes = 0 /\ last'.binds = 0
            /\ ~last'.raised
            /\ IF Str(last'.answer) = Fmt(test_expected_answer)
               THEN last'.result = <<":ok: PASSED">>
               ELSE /\ last'.result[1] = ":x: FAILED: Got '"
                    /\ Carries(last'.result, <<Str(last'.answer)>>)
                    /\ Carries(last'.result, <<Fmt(test_expected_answer)>>)]_vars

C8_Witness ==
    /\ TEST_MODE /\ last.op = "submit" /\ last.part = 3
    /\ last.answer.t = "int" /\ last.result = <<":ok: PASSED">>

(***************************************************************************)
(* C9: outside Test Mode, submit with part not in {1, 2} returns an error  *)
(* string without raising, calls the gateway not at all, and leaves the    *)
(* Progress Store and the archive unchanged.                               *)
(***************************************************************************)
C9_InvalidPart ==
    [][(SubmitStep /\ last'.part \notin ValidParts)
         => /\ ~last'.raised
            /\ last'.result = <<"The 'part' argument for submit() must be 1 or 2.">>
            /\ last'.posts = 0 /\ last'.scrapes = 0
            /\ last'.writes = 0 /\ last'.binds = 0
            /\ FilesUnchanged]_vars

C9_Witness ==
    /\ ~TEST_MODE /\ last.op = "submit" /\ last.part = 3
    /\ last.result # <<>> /\ OwnStars = 2

(***************************************************************************)
(* C10: through any sequence of submit (with auto-bind), bind and clear    *)
(* calls an archive entry that exists is never deleted, and its content    *)
(* changes only in a call bind(part, overwrite=True) for its own part: a   *)
(* second bind without overwrite and the auto-bind of a correct submit     *)
(* leave an existing entry as it is.                                       *)
(***************************************************************************)
C10_ArchiveKept ==
    [][\A d \in DOMAIN solutions :
          /\ d \in DOMAIN solutions'
          /\ solutions'[d] # solutions[d]
                => /\ last'.op = "bind"
                   /\ last'.overwrite
                   /\ d = dest_path(year, day, last'.part)]_vars

C10_Witness ==
    /\ last.op = "bind" /\ ~last.overwrite /\ last.bind_status = "exists"
    /\ notepad.exists
    /\ solutions[dest_path(year, day, last.part)] # <<>>
    /\ solutions[dest_path(year, day, last.part)] # Cleaned[notepad.text]

(***************************************************************************)
(* Lines of a text, for the properties of the cleaning                     *)
(***************************************************************************)
RECURSIVE LinesFrom(_, _, _)
LinesFrom(s, i, cur) ==
    IF i > Len(s) THEN <<cur>>
    ELSE IF s[i] = "NL" THEN <<cur>> \o LinesFrom(s, i + 1, <<>>)
    ELSE LinesFrom(s, i + 1, Append(cur, s[i]))
Lines(s) == LinesFrom(s, 1, <<>>)

\* a line without the blanks at its end
RECURSIVE TrimLine(_)
TrimLine(l) ==
    IF l # <<>> /\ l[Len(l)] = "SP" THEN TrimLine(SubSeq(l, 1, Len(l) - 1))
    ELSE l
NotBlank(l) == l # <<>>
\* the lines of a text that hold code, in order
CodeLines(s) ==
    SelectSeq([n \in DOMAIN Lines(s) |-> TrimLine(Lines(s)[n])], NotBlank)
\* the line is a call of aoc.bind and nothing else
PurelyBind(l) ==
    \E j \in DOMAIN l : l[j] = "B" /\ \A t \in DOMAIN l \ {j} : l[t] = "SP"
NotPurelyBind(l) == ~PurelyBind(l)
Archived(part) == solutions[dest_path(year, day, part)]
Saved == last.op = "bind" /\ last.bind_status = "saved"

\* C11: whenever bind has written an archive entry, the lines of code of the
\* archived copy are the lines of code of the scratch source that are not
\* purely a call of aoc.bind, in the same order, and the copy ends with no
\* whitespace.
C11_OnlyBindLinesRemoved ==
    Saved =>
        /\ CodeLines(Archived(last.part))
              = SelectSeq(CodeLines(notepad.text), NotPurelyBind)
        /\ RStrip(Archived(last.part)) = Archived(last.part)

(***************************************************************************)
(* Context resolution and the context commands                             *)
(***************************************************************************)
Resolved == <<year, day>>
Stored == context_file # NoContext
\* 2015 <= year <= latest_year, 1 <= day <= 25, and
\* year == latest_year implies day <= latest_day
ValidNow(c) ==
    /\ FirstYear <= c[1] /\ c[1] <= latest[1]
    /\ 1 <= c[2] /\ c[2] <= LastDay
    /\ (c[1] = latest[1] => c[2] <= latest[2])
SetStep == last'.op = "context_set"
ShowStep == last'.op = "context_show"
ClearStep == last'.op = "context_clear"

\* C12: a process that has just started has resolved the persisted context
\* if the Context Store holds one, whatever the oracle says, and the
\* oracle's date if the store holds none.
C12_ResolvedAtStart ==
    last.op = "import" =>
        /\ Stored => Resolved = context_file /\ last.source = "persisted"
        /\ ~Stored => Resolved = latest /\ last.source = "default"
\* a process started right after a context clear, under a store that held a
\* context before
C12_Witness ==
    /\ last.op = "import" /\ last.after = "context_clear"
    /\ ~Stored /\ Resolved = latest
\* the persisted context passes the three checks under the current oracle
C13_StoreValid == Stored => ValidNow(context_file)
\* what a step of a context command does to the store
C13_Step ==
    /\ SetStep /\ ValidNow(<<last'.year, last'.day>>) =>
          context_file' = <<last'.year, last'.day>> /\ ~last'.aborted
    /\ SetStep /\ ~ValidNow(<<last'.year, last'.day>>) =>
          context_file' = context_file /\ last'.aborted
    /\ context_file' # context_file =>
          (SetStep /\ ~last'.aborted) \/ ClearStep
    /\ ShowStep /\ Stored =>
          /\ context_file' = context_file
          /\ last'.result = <<"The current context is set to: Year ",
                               context_file[1], ", Day ", context_file[2]>>
\* C13: context set writes the store exactly when the three checks pass and
\* otherwise aborts and leaves the store as it was; the store changes by an
\* accepted set or a clear only; so a persisted context always satisfies the
\* checks under the current oracle, and context show reports it.
C13_SetValidates == []C13_StoreValid /\ [][C13_Step]_vars
\* a set of a day the calendar has not reached is refused while the store
\* holds an earlier accepted context that the oracle has since moved past
C13_Witness ==
    /\ last.op = "context_set" /\ last.error = "not_yet"
    /\ Stored /\ context_file[1] < latest[1]

(***************************************************************************)
(* Failures of the archive                                                 *)
(***************************************************************************)
\* the ways bind ends without a new archive entry in place
ArchiveFailures == {"no_notepad", "exists", "failed", "format_raised"}

\* C14: a submit that gets the Correct response and calls bind has written
\* max(current, part) to the Progress Store however bind ended, an exception
\* leaving bind included; and no later call of bind changes the Progress
\* Store.
C14_StarsKeptThroughArchive ==
    [][/\ (LiveStep /\ last'.branch = "correct" /\ last'.binds = 1)
           => /\ last'.bind_status \in ArchiveFailures \cup {"saved"}
              /\ last'.writes = 1
              /\ StarsOf(progress_file', OwnKey) = last'.part
              /\ StarsOf(progress_file', OwnKey) > OwnStars
       /\ last'.op = "bind" => progress_file' = progress_file]_vars

\* the formatter raised out of bind, and so out of submit, after the star of
\* part 2 was written
C14_Witness ==
    /\ ~TEST_MODE /\ last.op = "submit" /\ last.branch = "correct"
    /\ last.bind_status = "format_raised" /\ last.raised
    /\ last.part = 2 /\ OwnStars = 2

\* C15: every call of bind returns normally: no exception leaves it, whether
\* the scratch file is missing, the formatter fails, or a step of the try
\* block fails.
C15_BindNeverRaises ==
    last.op = "bind" =>
        /\ ~last.raised
        /\ last.bind_status \in {"invalid_part", "no_notepad", "exists",
                                  "failed", "saved"}

(***************************************************************************)
(* Gateway calls of one submit                                             *)
(***************************************************************************)
Returned(call) == ~call.raised /\ call.result # <<>>

\* C16: a submit call outside Test Mode scrapes once, and posts nothing, when
\* the recorded stars are >= part; it posts once, and scrapes nothing, when
\* they are below part; it never makes two gateway calls; and on the verify,
\* Incorrect and AlreadyCompletedByServer outcomes it returns a result
\* string and raises nothing.
C16_OneGatewayCall ==
    [][SubmitStep =>
        /\ last'.posts + last'.scrapes <= 1
        /\ last'.scrapes = 1
              <=> (last'.part \in ValidParts /\ OwnStars >= last'.part)
        /\ last'.posts = 1
              <=> (last'.part \in ValidParts /\ OwnStars < last'.part)
        /\ last'.branch \in {"verify", "incorrect", "already_completed"}
              => Returned(last') /\ last'.posts + last'.scrapes = 1]_vars

\* the server refused a part it holds as solved: one post, no scrape, a
\* result string
C16_Witness ==
    /\ ~TEST_MODE /\ last.op = "submit" /\ last.branch = "already_completed"
    /\ last.posts = 1 /\ last.scrapes = 0 /\ Returned(last)

(***************************************************************************)
(* The resolved context during the life of a process                       *)
(***************************************************************************)
\* the two records agree at every key but k
SameBut(f, g, k) ==
    /\ DOMAIN f \ {k} = DOMAIN g \ {k}
    /\ \A x \in DOMAIN f \ {k} : f[x] = g[x]

\* C17: no step changes the resolved (year, day), whatever context set and
\* context clear do to the Context Store meanwhile; every submit reads and
\* writes the Progress Store at <<year, day>> only and moves the provider's
\* state of <<year, day>> only; every bind, called directly or by submit,
\* writes the archive at <<year, day, part>> only.
C17_ContextFixed ==
    [][/\ year' = year /\ day' = day
       /\ SameBut(progress_file, progress_file', <<year, day>>)
       /\ SameBut(solved, solved', <<year, day>>)
       /\ last'.op \in {"submit", "bind"} =>
             SameBut(solutions, solutions', <<year, day, last'.part>>)
       /\ last'.op \notin {"submit", "bind"} => solutions' = solutions
       /\ last'.op = "submit" /\ last'.writes = 1 =>
             progress_file'[<<year, day>>] = Larger(OwnStars, last'.part)
       /\ last'.op \in {"submit", "bind"} /\ last'.bind_status = "saved" =>
             <<year, day, last'.part>> \in DOMAIN solutions']_vars

\* a submit that wrote the star and archived the solution of the resolved
\* day while the store held another day, set by another process
C17_Witness ==
    /\ context_file # NoContext /\ context_file # <<year, day>>
    /\ last.op = "submit" /\ last.writes = 1 /\ last.bind_status = "saved"
    /\ OwnStars = last.part
    /\ <<year, day, last.part>> \in DOMAIN solutions

(***************************************************************************)
(* Interleaved submit calls of two processes                               *)
(***************************************************************************)
ProcKey(p) == <<procs[p].year, procs[p].day>>

\* C18: a write of a submit call puts in the Progress Store the record that
\* call read, with the entry of its own day set to max(stars read, part)
\* and nothing else changed: what the file held just before the write,
\* another process's star update included, is not looked at.
C18_LastWriterWins ==
    [][\A p \in Procs :
          (last'.op = "submit_write" /\ last'.proc = p /\ last'.wrote) =>
              /\ SameBut(procs[p].progress_data, progress_file', ProcKey(p))
              /\ ProcKey(p) \in DOMAIN progress_file'
              /\ progress_file'[ProcKey(p)] =
                    Larger(StarsOf(procs[p].progress_data, ProcKey(p)),
                           procs[p].part)]_vars

\* a write that removed a star update of another day, which the other
\* process wrote after this writer's read
C18_Witness ==
    /\ last.op = "submit_write" /\ last.wrote
    /\ \E k \in Keys \ {ProcKey(last.proc)} :
          /\ StarsOf(last.before, k) > StarsOf(last.read, k)
          /\ StarsOf(progress_file, k) = StarsOf(last.read, k)

(***************************************************************************)
(* The scratch file after an archive                                       *)
(***************************************************************************)
\* the last call was a bind that got as far as the commit step and met no
\* failure but, possibly, in the commit
PastWrite ==
    /\ last.op = "bind"
    /\ \/ last.bind_status = "saved"
       \/ /\ last.bind_status = "failed"
          /\ last.cfg.auto_commit_on_bind /\ last.env.io = "commit_fail"

\* C19: after a bind that wrote the archive entry, with auto-clear enabled,
\* the scratch file is empty, also when the commit failed; and the archive
\* entry is in place.
C19_ClearedAfterArchive ==
    PastWrite /\ last.cfg.auto_clear_on_bind =>
        /\ ~last.raised
        /\ notepad.text = <<>>
        /\ <<year, day, last.part>> \in DOMAIN solutions

(***************************************************************************)
(* Frame of a write of the Progress Store                                  *)
(***************************************************************************)
C20_StarsInRange == \A k \in DOMAIN progress_file : progress_file[k] \in 0..2
C20_Step ==
    (SubmitStep /\ last'.writes = 1) =>
        /\ SameBut(progress_file, progress_file', OwnKey)
        /\ OwnKey \in DOMAIN progress_file'
        /\ progress_file'[OwnKey] \in {1, 2}
\* C20: a submit call that writes the Progress Store leaves the entry of
\* every other (year, day) as it was, present or absent, and sets the entry
\* of the resolved day to 1 or 2; every star count in the store is 0, 1
\* or 2 at all times.
C20_OnlyOwnEntry == []C20_StarsInRange /\ [][C20_Step]_vars

\* a write of the second star of the resolved day next to another day's
\* recorded star
C20_Witness ==
    /\ ~TEST_MODE /\ last.op = "submit" /\ last.writes = 1 /\ OwnStars = 2
    /\ \E k \in DOMAIN progress_file \ {OwnKey} : progress_file[k] = 1
====
